---- MODULE Spec2Model ----
(***************************************************************************)
(* Model of src/FileName.cpp: PolynomicalFunction (evaluate,               *)
(* antiderivative, print), AnalyticalIntegrator, RiemannIntegrator and     *)
(* printTable.                                                             *)
(*                                                                         *)
(* Numbers.  A C++ double is modelled as a binary floating-point number    *)
(* with a significand of Prec bits (53 in the program) and round to        *)
(* nearest, ties to even.  A finite value is the pair <<m, e>> standing    *)
(* for m * 2^e, with m odd, or <<0, 0>> for zero.  Exponent overflow and   *)
(* underflow, and the sign of zero, are outside the model: the inputs are  *)
(* finite, far from the exponent limits, and never -0.0.                   *)
(***************************************************************************)
EXTENDS Integers, Sequences, FiniteSets, TLC

\* Significand width of the modelled double (the program's is 53).
Prec == 4

\* Largest number of coefficients of a polynomial the model constructs.
MaxLen == 3

(***************************************************************************)
(* Floating-point arithmetic                                               *)
(***************************************************************************)
Abs(n) == IF n < 0 THEN -n ELSE n

Sgn(n) == IF n < 0 THEN -1 ELSE IF n > 0 THEN 1 ELSE 0

Min(p, q) == IF p < q THEN p ELSE q

Max(p, q) == IF p < q THEN q ELSE p

RECURSIVE Pow2(_)
Pow2(k) == IF k <= 0 THEN 1 ELSE 2 * Pow2(k - 1)

RECURSIVE IPow(_, _)
IPow(m, k) == IF k <= 0 THEN 1 ELSE m * IPow(m, k - 1)

\* Number of bits of the natural number n (0 for n = 0).
RECURSIVE BitLen(_)
BitLen(n) == IF n <= 0 THEN 0 ELSE 1 + BitLen(n \div 2)

\* The canonical pair of m * 2^e.
RECURSIVE Norm(_, _)
Norm(m, e) ==
    IF m = 0 THEN <<0, 0>>
    ELSE IF m % 2 = 0 THEN Norm(m \div 2, e + 1)
    ELSE <<m, e>>

Zero == <<0, 0>>

One == <<1, 0>>

\* m * 2^e rounded to Prec significant bits, ties to even.
RoundMant(m, e) ==
    LET n    == Abs(m)
        sh   == BitLen(n) - Prec
    IN  IF sh <= 0 THEN Norm(m, e)
        ELSE LET q    == n \div Pow2(sh)
                 r    == n % Pow2(sh)
                 half == Pow2(sh - 1)
                 up   == r > half \/ (r = half /\ q % 2 = 1)
             IN  Norm(Sgn(m) * (IF up THEN q + 1 ELSE q), e + sh)

\* (n / d) * 2^e rounded to Prec significant bits, for n >= 0 and d > 0:
\* the quotient is developed to Prec + 2 bits and a sticky bit.
RoundRat(n, d, e) ==
    IF n = 0 THEN Zero
    ELSE LET k  == Max(0, Prec + 2 + BitLen(d) - BitLen(n))
             q  == (n * Pow2(k)) \div d
             r  == (n * Pow2(k)) % d
         IN  RoundMant(2 * q + (IF r = 0 THEN 0 ELSE 1), e - k - 1)

\* Exponent of the binade above x: |x| < 2^Top(x).
Top(x) == x[2] + BitLen(Abs(x[1]))

Neg(x) == <<-x[1], x[2]>>

\* x + y.  An operand below a quarter of the other's unit in the last place
\* does not change the rounded sum.
fadd(x, y) ==
    IF x[1] = 0 THEN y
    ELSE IF y[1] = 0 THEN x
    ELSE IF Top(x) - Top(y) >= Prec + 2 THEN x
    ELSE IF Top(y) - Top(x) >= Prec + 2 THEN y
    ELSE LET lo == Min(x[2], y[2])
         IN  RoundMant(x[1] * Pow2(x[2] - lo) + y[1] * Pow2(y[2] - lo), lo)

fsub(x, y) == fadd(x, Neg(y))

fmul(x, y) == RoundMant(x[1] * y[1], x[2] + y[2])

\* x / y for y # 0.
fdiv(x, y) ==
    LET q == RoundRat(Abs(x[1]), Abs(y[1]), x[2] - y[2])
    IN  IF Sgn(x[1]) * Sgn(y[1]) < 0 THEN Neg(q) ELSE q

\* The sign of x - y decides the comparisons: rounding keeps the sign.
Lt(x, y) == fsub(x, y)[1] < 0

Leq(x, y) == fsub(x, y)[1] <= 0

\* Conversion of an int to double.
IntToFloat(i) == RoundMant(i, 0)

\* pow(x, i) of <cmath> for an integer exponent i >= 0: pow(x, 0) is 1 for
\* every x, 0 included.
pow(x, i) == RoundMant(IPow(x[1], i), x[2] * i)

(***************************************************************************)
(* operator<<(ostream&, double) with the stream's default settings: the    *)
(* value is written with 6 significant decimal digits, the exact binary    *)
(* value rounded to nearest, ties to even.  The written number is the pair *)
(* <<d, k>> standing for d * 10^k, with d not a multiple of 10, or         *)
(* <<0, 0>>.                                                               *)
(***************************************************************************)
Digits == 6

RECURSIVE NormDec(_, _)
NormDec(d, k) ==
    IF d = 0 THEN <<0, 0>>
    ELSE IF d % 10 = 0 THEN NormDec(d \div 10, k + 1)
    ELSE <<d, k>>

RECURSIVE NumDigits(_)
NumDigits(n) == IF n <= 0 THEN 0 ELSE 1 + NumDigits(n \div 10)

RECURSIVE IPow10(_)
IPow10(k) == IF k <= 0 THEN 1 ELSE 10 * IPow10(k - 1)

\* The digits after the decimal point of r / den are developed one at a time
\* until `Digits` significant digits are in acc, then the rest decides the
\* rounding.
RECURSIVE FracDigits(_, _, _, _, _)
FracDigits(acc, s, r, den, k) ==
    IF s = Digits \/ r = 0
    THEN LET up == 2 * r > den \/ (2 * r = den /\ acc % 2 = 1)
         IN  NormDec(IF up THEN acc + 1 ELSE acc, k)
    ELSE LET dg == (10 * r) \div den
             r2 == (10 * r) % den
         IN  IF acc = 0 /\ dg = 0
             THEN FracDigits(0, 0, r2, den, k - 1)
             ELSE FracDigits(10 * acc + dg, s + 1, r2, den, k - 1)

\* num / den >= 0 written with `Digits` significant digits.
FmtRat(num, den) ==
    LET ip == num \div den
        r  == num % den
        nd == NumDigits(ip)
    IN  IF nd > Digits
        THEN LET k    == nd - Digits
                 q    == ip \div IPow10(k)
                 rem  == ip % IPow10(k)
                 half == 5 * IPow10(k - 1)
                 up   == rem > half \/ (rem = half /\ (r > 0 \/ q % 2 = 1))
             IN  NormDec(IF up THEN q + 1 ELSE q, k)
        ELSE FracDigits(ip, nd, r, den, 0)

Fmt(x) ==
    LET p == IF x[2] >= 0 THEN FmtRat(Abs(x[1]) * Pow2(x[2]), 1)
             ELSE FmtRat(Abs(x[1]), Pow2(-x[2]))
    IN  IF x[1] < 0 THEN <<-p[1], p[2]>> ELSE p

\* What the program writes to cout, one element per operator<< call.
Num(x) == [t |-> "double", s |-> "", d |-> Fmt(x)[1], k |-> Fmt(x)[2]]

IntTok(i) == [t |-> "int", s |-> "", d |-> i, k |-> 0]

Txt(str) == [t |-> "text", s |-> str, d |-> 0, k |-> 0]

Endl == [t |-> "endl", s |-> "\n", d |-> 0, k |-> 0]

(***************************************************************************)
(* PolynomicalFunction.  A polynomial is its vector of coefficients;       *)
(* coefficients[i] of the program is coefficients[i + 1] here.             *)
(***************************************************************************)
\* evaluateLoop with the power one too high.
RECURSIVE evaluateLoop_PowerOff(_, _, _, _)
evaluateLoop_PowerOff(coefficients, x, i, result) ==
    IF i < Len(coefficients)
    THEN evaluateLoop_PowerOff(coefficients, x, i + 1,
             fadd(result, fmul(coefficients[i + 1], pow(x, i + 1))))
    ELSE result

RECURSIVE evaluateLoop(_, _, _, _)
evaluateLoop(coefficients, x, i, result) ==
    IF i < Len(coefficients)
    THEN evaluateLoop(coefficients, x, i + 1,
                      fadd(result, fmul(coefficients[i + 1], pow(x, i))))
    ELSE result

evaluate(coefficients, x) == evaluateLoop(coefficients, x, 0, Zero)

\* antiderivativeLoop dividing by the old power instead of the new one.
RECURSIVE antiderivativeLoop_OldPower(_, _, _)
antiderivativeLoop_OldPower(coefficients, i, newCoeffs) ==
    IF i < Len(coefficients)
    THEN antiderivativeLoop_OldPower(coefficients, i + 1,
             [newCoeffs EXCEPT ![i + 2] =
                  IF i = 0 THEN coefficients[i + 1]
                  ELSE fdiv(coefficients[i + 1], IntToFloat(i))])
    ELSE newCoeffs

RECURSIVE antiderivativeLoop(_, _, _)
antiderivativeLoop(coefficients, i, newCoeffs) ==
    IF i < Len(coefficients)
    THEN antiderivativeLoop(coefficients, i + 1,
             [newCoeffs EXCEPT ![i + 2] =
                  fdiv(coefficients[i + 1], IntToFloat(i + 1))])
    ELSE newCoeffs

antiderivative(coefficients) ==
    antiderivativeLoop(coefficients, 0,
                       [n \in 1..(Len(coefficients) + 1) |-> Zero])

\* printLoop leaving out the terms whose coefficient is 0.
RECURSIVE printLoop_SkipZero(_, _, _)
printLoop_SkipZero(coefficients, i, stream) ==
    IF i < Len(coefficients)
    THEN printLoop_SkipZero(coefficients, i + 1,
             IF coefficients[i + 1] = Zero THEN stream
             ELSE IF i = 0
             THEN stream \o <<Num(coefficients[i + 1])>>
             ELSE stream \o <<Txt(" + "), Num(coefficients[i + 1]),
                              Txt("x^"), IntTok(i)>>)
    ELSE stream

RECURSIVE printLoop(_, _, _)
printLoop(coefficients, i, stream) ==
    IF i < Len(coefficients)
    THEN printLoop(coefficients, i + 1,
             IF i = 0
             THEN stream \o <<Num(coefficients[i + 1])>>
             ELSE stream \o <<Txt(" + "), Num(coefficients[i + 1]),
                              Txt("x^"), IntTok(i)>>)
    ELSE stream

print(coefficients) == printLoop(coefficients, 0, <<>>) \o <<Endl>>

(***************************************************************************)
(* AnalyticalIntegrator::integrate.  The antiderivative p is destroyed     *)
(* through a Function*, whose destructor is not virtual: the builds run    *)
(* ~Function alone and leave p's coefficients allocated, after the         *)
(* returned value is computed.                                             *)
(***************************************************************************)
\* integrate with the bounds exchanged.
AnalyticalIntegrate_Swapped(f, a, b) ==
    LET p == antiderivative(f)
    IN  fsub(evaluate(p, a), evaluate(p, b))

\* integrate evaluating f itself at the lower bound.
AnalyticalIntegrate_LowerOfF(f, a, b) ==
    LET p == antiderivative(f)
    IN  fsub(evaluate(p, b), evaluate(f, a))

AnalyticalIntegrate(f, a, b) ==
    LET p == antiderivative(f)
    IN  fsub(evaluate(p, b), evaluate(p, a))

(***************************************************************************)
(* RiemannIntegrator::integrate                                            *)
(***************************************************************************)
INT_MAX == 2147483647

INT_MIN == -INT_MAX - 1

Two == <<1, 1>>

\* (b - a) / h as the hardware divides: a finite quotient, or an infinity or
\* a NaN when h is zero.
Quotient(x, y) ==
    IF y[1] # 0 THEN [cls |-> "finite", v |-> fdiv(x, y)]
    ELSE IF x[1] > 0 THEN [cls |-> "+inf", v |-> Zero]
    ELSE IF x[1] < 0 THEN [cls |-> "-inf", v |-> Zero]
    ELSE [cls |-> "nan", v |-> Zero]

\* x lies in the range of int after truncation.
InIntRange(x) == Top(x) <= 31 \/ x = <<-1, 31>>

\* x truncated toward zero, for x in the range of int.
Trunc(x) ==
    IF x = <<-1, 31>> THEN INT_MIN
    ELSE IF x[2] >= 0 THEN x[1] * Pow2(x[2])
    ELSE IF -x[2] >= BitLen(Abs(x[1])) THEN 0
    ELSE Sgn(x[1]) * (Abs(x[1]) \div Pow2(-x[2]))

\* (int) q rounding up instead of truncating.
IntCast_Ceil(q) ==
    IF q.cls # "finite" \/ ~InIntRange(q.v) THEN {INT_MIN}
    ELSE IF q.v[1] < 0 \/ q.v[2] >= 0 THEN {Trunc(q.v)}
    ELSE {Trunc(q.v) + 1}

\* (int) q.  The conversion of a value outside the range of int is undefined:
\* the builds' conversion instructions give INT_MIN (the "indefinite"
\* integer) or saturate, and turn a NaN into INT_MIN, 0 or INT_MAX.
IntCast(q) ==
    IF q.cls = "nan" THEN {INT_MIN, 0, INT_MAX}
    ELSE IF q.cls = "+inf" THEN {INT_MIN, INT_MAX}
    ELSE IF q.cls = "-inf" THEN {INT_MIN}
    ELSE IF InIntRange(q.v) THEN {Trunc(q.v)}
    ELSE IF q.v[1] > 0 THEN {INT_MIN, INT_MAX}
    ELSE {INT_MIN}

\* The body of the loop: the sum after the trapezoid of index i.
RiemannStep(f, a, h, i, sum) ==
    LET x1 == fadd(a, fmul(IntToFloat(i), h))
        x2 == fadd(x1, h)
        y1 == evaluate(f, x1)
        y2 == evaluate(f, x2)
    IN  fadd(sum, fmul(fsub(x2, x1), fdiv(fadd(y2, y1), Two)))

(***************************************************************************)
(* The inputs of the model                                                 *)
(***************************************************************************)
\* Functions and integrators main may put in its vectors.
MaxFuncs == 2

MaxItors == 2

\* Iterations of the Riemann loop the model follows.
MaxIter == 4

\* Direct calls of print the model follows.
MaxPrints == 1

F(m, e) == Norm(m, e)

\* 0, 1, -1, 5
CoefSet == {Zero, One, F(-1, 0), F(5, 0)}

RECURSIVE SeqsUpTo(_, _)
SeqsUpTo(S, n) ==
    IF n = 0 THEN {<<>>}
    ELSE LET shorter == SeqsUpTo(S, n - 1)
         IN  shorter \cup {Append(q, c) : q \in shorter, c \in S}

Polys == SeqsUpTo(CoefSet, MaxLen)

\* 0, 1/2, 7, -2
XSet == {Zero, F(1, -1), F(7, 0), F(-2, 0)}

\* no coefficients, and 1 + 3x^2
TablePolys == {<<>>, <<One, Zero, F(3, 0)>>}

\* 0, 3/4, 2
BoundSet == {Zero, F(3, -2), F(2, 0)}

\* The default argument 0.001 of the constructor, as a double.
HDefault == RoundRat(1, 1000, 0)

\* 1, 2^-31, 0, -1 and the default
HSet == {One, F(1, -31), Zero, F(-1, 0), HDefault}

(***************************************************************************)
(* The program                                                             *)
(***************************************************************************)
VARIABLES
    functions,  \* vector<unique_ptr<Function>>: the coefficients of each
    itors,      \* vector<unique_ptr<Integrator>>
    a, b,       \* the bounds printTable was called with
    pc,         \* where the program is
    i, j,       \* printTable's loop indices
    out,        \* what was written to cout
    calls,      \* the calls of integrate that returned, in order
    n, ri, sum, \* RiemannIntegrator::integrate's n, i and sum
    evals,      \* calls of f.evaluate by the integrate call in progress
    call        \* the last direct call of a member function and its result

vars == <<functions, itors, a, b, pc, i, j, out, calls, n, ri, sum, evals, call>>

NoCall == [op |-> "none", x |-> Zero, a |-> Zero, b |-> Zero, pos |-> 0,
           ret |-> Zero, retf |-> <<>>]

Analytical == [kind |-> "Analytical", h |-> Zero]

Riemann(h) == [kind |-> "Riemann", h |-> h]

Init ==
    /\ functions = <<>>
    /\ itors = <<>>
    /\ a = Zero /\ b = Zero
    /\ pc = "main"
    /\ i = 0 /\ j = 0
    /\ out = <<>>
    /\ calls = <<>>
    /\ n = 0 /\ ri = 0 /\ sum = Zero
    /\ evals = 0
    /\ call = NoCall

\* functions.push_back(make_unique<PolynomicalFunction>(coeffs))
PushFunction(coeffs) ==
    /\ pc = "main"
    /\ Len(functions) < MaxFuncs
    /\ functions' = Append(functions, coeffs)
    /\ UNCHANGED <<itors, a, b, pc, i, j, out, calls, n, ri, sum, evals, call>>

\* itors.push_back(make_unique<AnalyticalIntegrator>())
PushAnalytical ==
    /\ pc = "main"
    /\ Len(itors) < MaxItors
    /\ itors' = Append(itors, Analytical)
    /\ UNCHANGED <<functions, a, b, pc, i, j, out, calls, n, ri, sum, evals, call>>

\* itors.push_back(make_unique<RiemannIntegrator>(h)): the constructor
\* stores whatever h it is given.
PushRiemann(h) ==
    /\ pc = "main"
    /\ Len(itors) < MaxItors
    /\ itors' = Append(itors, Riemann(h))
    /\ UNCHANGED <<functions, a, b, pc, i, j, out, calls, n, ri, sum, evals, call>>

\* printTable(functions, itors, a, b) is entered.
CallPrintTable(a0, b0) ==
    /\ pc = "main"
    /\ a' = a0 /\ b' = b0
    /\ i' = 0 /\ j' = 0
    /\ pc' = "table"
    /\ UNCHANGED <<functions, itors, out, calls, n, ri, sum, evals, call>>

\* The outer loop enters a row: functions[i]->print(cout).
PrintRow ==
    /\ pc = "table"
    /\ i < Len(functions)
    /\ out' = out \o print(functions[i + 1])
    /\ j' = 0
    /\ pc' = "row"
    /\ UNCHANGED <<functions, itors, a, b, i, calls, n, ri, sum, evals, call>>

\* The outer loop ends and printTable returns.
TableDone ==
    /\ pc = "table"
    /\ i >= Len(functions)
    /\ pc' = "done"
    /\ UNCHANGED <<functions, itors, a, b, i, j, out, calls, n, ri, sum, evals, call>>

Returned(ret, iters, ev) ==
    [fi |-> i, ij |-> j, iters |-> iters, evals |-> ev, ret |-> ret]

\* cout << itors[j]->integrate(*functions[i], a, b) << ";" for an
\* AnalyticalIntegrator.
IntegrateAnalytical ==
    /\ pc = "row"
    /\ j < Len(itors)
    /\ itors[j + 1].kind = "Analytical"
    /\ LET ret == AnalyticalIntegrate(functions[i + 1], a, b)
       IN  /\ out' = out \o <<Num(ret), Txt(";")>>
           /\ calls' = Append(calls, Returned(ret, 0, 0))
    /\ j' = j + 1
    /\ UNCHANGED <<functions, itors, a, b, pc, i, n, ri, sum, evals, call>>

\* RiemannIntegrator::integrate is entered: n and sum are set.
RiemannBegin ==
    /\ pc = "row"
    /\ j < Len(itors)
    /\ itors[j + 1].kind = "Riemann"
    /\ n' \in IntCast(Quotient(fsub(b, a), itors[j + 1].h))
    /\ sum' = Zero
    /\ ri' = 0
    /\ evals' = 0
    /\ pc' = "riemann"
    /\ UNCHANGED <<functions, itors, a, b, i, j, out, calls, call>>

\* One iteration of the loop of RiemannIntegrator::integrate.
RiemannIter ==
    /\ pc = "riemann"
    /\ ri < n
    /\ ri < MaxIter
    /\ sum' = RiemannStep(functions[i + 1], a, itors[j + 1].h, ri, sum)
    /\ ri' = ri + 1
    /\ evals' = evals + 2
    /\ UNCHANGED <<functions, itors, a, b, pc, i, j, out, calls, n, call>>

\* The loop ends, integrate returns sum and printTable writes it.
RiemannReturn ==
    /\ pc = "riemann"
    /\ ri >= n
    /\ out' = out \o <<Num(sum), Txt(";")>>
    /\ calls' = Append(calls, Returned(sum, ri, evals))
    /\ j' = j + 1
    /\ pc' = "row"
    /\ UNCHANGED <<functions, itors, a, b, i, n, ri, sum, evals, call>>

\* The end of a row without its newline.
EndRow_NoNewline ==
    /\ pc = "row"
    /\ j >= Len(itors)
    /\ i' = i + 1
    /\ pc' = "table"
    /\ UNCHANGED <<functions, itors, a, b, j, out, calls, n, ri, sum, evals, call>>

\* The inner loop ends: cout << endl, and the next row.
EndRow ==
    /\ pc = "row"
    /\ j >= Len(itors)
    /\ out' = out \o <<Endl>>
    /\ i' = i + 1
    /\ pc' = "table"
    /\ UNCHANGED <<functions, itors, a, b, j, calls, n, ri, sum, evals, call>>

Next ==
    \/ \E coeffs \in TablePolys : PushFunction(coeffs)
    \/ PushAnalytical
    \/ \E h \in HSet : PushRiemann(h)
    \/ \E a0 \in BoundSet, b0 \in BoundSet : CallPrintTable(a0, b0)
    \/ PrintRow
    \/ TableDone
    \/ IntegrateAnalytical
    \/ RiemannBegin
    \/ RiemannIter
    \/ RiemannReturn
    \/ EndRow

Spec == Init /\ [][Next]_vars

(***************************************************************************)
(* Direct calls of the member functions of one polynomial and of           *)
(* AnalyticalIntegrator::integrate, each with its result.                  *)
(***************************************************************************)
InitFn ==
    /\ functions \in {<<coeffs>> : coeffs \in Polys}
    /\ itors = <<Analytical>>
    /\ a = Zero /\ b = Zero
    /\ pc = "main"
    /\ i = 0 /\ j = 0
    /\ out = <<>>
    /\ calls = <<>>
    /\ n = 0 /\ ri = 0 /\ sum = Zero
    /\ evals = 0
    /\ call = NoCall

\* functions[0]->evaluate(x)
CallEvaluate(x) ==
    /\ call' = [NoCall EXCEPT !.op = "evaluate", !.x = x,
                              !.ret = evaluate(functions[1], x)]
    /\ UNCHANGED <<functions, itors, a, b, pc, i, j, out, calls, n, ri, sum, evals>>

\* functions[0]->antiderivative()
CallAntiderivative ==
    /\ call' = [NoCall EXCEPT !.op = "antiderivative",
                              !.retf = antiderivative(functions[1])]
    /\ UNCHANGED <<functions, itors, a, b, pc, i, j, out, calls, n, ri, sum, evals>>

Printed == Cardinality({p \in DOMAIN out : out[p].t = "endl"})

\* functions[0]->print(cout)
CallPrint ==
    /\ Printed < MaxPrints
    /\ out' = out \o print(functions[1])
    /\ call' = [NoCall EXCEPT !.op = "print", !.pos = Len(out)]
    /\ UNCHANGED <<functions, itors, a, b, pc, i, j, calls, n, ri, sum, evals>>

\* itors[0]->integrate(*functions[0], a0, b0), an AnalyticalIntegrator
CallIntegrate(a0, b0) ==
    /\ itors[1].kind = "Analytical"
    /\ call' = [NoCall EXCEPT !.op = "integrate", !.a = a0, !.b = b0,
                              !.ret = AnalyticalIntegrate(functions[1], a0, b0)]
    /\ UNCHANGED <<functions, itors, a, b, pc, i, j, out, calls, n, ri, sum, evals>>

NextFn ==
    \/ \E x \in XSet : CallEvaluate(x)
    \/ CallAntiderivative
    \/ CallPrint
    \/ \E a0 \in XSet, b0 \in XSet : CallIntegrate(a0, b0)

SpecFn == InitFn /\ [][NextFn]_vars

(***************************************************************************)
(* Exact arithmetic on the values, for stating what a result should be.    *)
(***************************************************************************)
ExactSub(x, y) ==
    LET lo == Min(x[2], y[2])
    IN  Norm(x[1] * Pow2(x[2] - lo) - y[1] * Pow2(y[2] - lo), lo)

ExactMul(x, y) == Norm(x[1] * y[1], x[2] + y[2])

\* x is a double: its significand fits in Prec bits.
Representable(x) == BitLen(Abs(x[1])) <= Prec

IsInteger(x) == x[2] >= 0

IntValue(x) == x[1] * Pow2(x[2])

(***************************************************************************)
(* C1: antiderivative() of the coefficients c0..cn returns n+2             *)
(* coefficients, the first 0 and the one at index i+1 equal to c_i/(i+1)   *)
(* (c0 itself at index 1, and exactly half of c1 at index 2); for no       *)
(* coefficients the result is [0].                                         *)
(***************************************************************************)
C1_Antiderivative ==
    call.op = "antiderivative" =>
        LET c == functions[1]
            r == call.retf
        IN  /\ Len(r) = Len(c) + 1
            /\ r[1] = Zero
            /\ \A k \in 0..(Len(c) - 1) :
                   r[k + 2] = fdiv(c[k + 1], IntToFloat(k + 1))
            /\ (Len(c) >= 1 => r[2] = c[1])
            /\ (Len(c) >= 2 => ExactMul(r[3], Two) = c[2])
            /\ (c = <<>> => r = <<Zero>>)

\* antiderivative() has returned for 3 coefficients, the last one 5: 5/3 is
\* rounded.
C1_Witness ==
    /\ call.op = "antiderivative"
    /\ Len(functions[1]) = 3
    /\ functions[1][3] = F(5, 0)
    /\ call.retf[4] # Zero

(***************************************************************************)
(* C2: evaluate(x) returns the sum of c_i * x^i taken from index 0         *)
(* upwards, and 0 for no coefficients.  The sum is stated by recursion on  *)
(* the number of terms, and for integers that need no rounding by the      *)
(* integer arithmetic of the sum.                                          *)
(***************************************************************************)
RECURSIVE PolySum(_, _, _)
PolySum(c, x, k) ==
    IF k = 0 THEN Zero
    ELSE fadd(PolySum(c, x, k - 1), fmul(c[k], pow(x, k - 1)))

RECURSIVE IntSum(_, _, _)
IntSum(c, x, k) ==
    IF k = 0 THEN 0
    ELSE IntSum(c, x, k - 1) + IntValue(c[k]) * IPow(IntValue(x), k - 1)

RECURSIVE AbsSum(_, _, _)
AbsSum(c, x, k) ==
    IF k = 0 THEN 0
    ELSE AbsSum(c, x, k - 1) + Abs(IntValue(c[k])) * IPow(Abs(IntValue(x)), k - 1)

NoRounding(c, x) ==
    /\ IsInteger(x)
    /\ \A k \in DOMAIN c : IsInteger(c[k])
    /\ AbsSum(c, x, Len(c)) < Pow2(Prec)

\* C2: evaluate(x) is that sum, for every vector of coefficients and every x.
C2_Evaluate ==
    call.op = "evaluate" =>
        LET c == functions[1]
        IN  /\ call.ret = PolySum(c, call.x, Len(c))
            /\ (c = <<>> => call.ret = Zero)
            /\ (NoRounding(c, call.x) =>
                    call.ret = Norm(IntSum(c, call.x, Len(c)), 0))

\* evaluate(-2) has returned for 1 + 5x - x^2: -13.
C2_Witness ==
    /\ call.op = "evaluate"
    /\ functions[1] = <<One, F(5, 0), F(-1, 0)>>
    /\ call.x = F(-2, 0)
    /\ call.ret = F(-13, 0)

(***************************************************************************)
(* C4, as claimed: AnalyticalIntegrator::integrate(f, a, b) returns        *)
(* F(b) - F(a) for F = f.antiderivative(), and for the constant function   *)
(* [c] the result is exactly c * (b - a), be that the product of the real  *)
(* numbers or the one the program's arithmetic gives.                      *)
(***************************************************************************)
C4_Claimed ==
    call.op = "integrate" =>
        LET f  == functions[1]
            FF == antiderivative(f)
        IN  /\ call.ret = fsub(evaluate(FF, call.b), evaluate(FF, call.a))
            /\ (Len(f) = 1 =>
                    \/ call.ret = ExactMul(f[1], ExactSub(call.b, call.a))
                    \/ call.ret = fmul(f[1], fsub(call.b, call.a)))

(***************************************************************************)
(* C4, amended: integrate returns F(b) - F(a) in floating point; for [c]   *)
(* that is the rounded difference of the rounded products c*b and c*a,     *)
(* which is c * (b - a) exactly when neither product nor their difference  *)
(* needs rounding.                                                         *)
(***************************************************************************)
C4_Amended ==
    call.op = "integrate" =>
        LET f  == functions[1]
            FF == antiderivative(f)
        IN  /\ call.ret = fsub(evaluate(FF, call.b), evaluate(FF, call.a))
            /\ (Len(f) = 1 =>
                  LET cb == ExactMul(f[1], call.b)
                      ca == ExactMul(f[1], call.a)
                  IN  /\ call.ret = fsub(fmul(f[1], call.b), fmul(f[1], call.a))
                      /\ (/\ Representable(cb)
                          /\ Representable(ca)
                          /\ Representable(ExactSub(cb, ca))
                          => call.ret = ExactMul(f[1], ExactSub(call.b, call.a))))

\* integrate([5], 1/2, 7) has returned: 5*7 and the difference are rounded,
\* and the result is not 5 * 13/2.
C4_Witness ==
    /\ call.op = "integrate"
    /\ functions[1] = <<F(5, 0)>>
    /\ call.a = F(1, -1)
    /\ call.b = F(7, 0)
    /\ call.ret # F(65, -1)

(***************************************************************************)
(* C7, as claimed: for b <= a AnalyticalIntegrator::integrate returns a    *)
(* result <= 0, and 0 for b = a.                                           *)
(***************************************************************************)
C7_Claimed ==
    (call.op = "integrate" /\ Leq(call.b, call.a)) =>
        /\ Leq(call.ret, Zero)
        /\ (call.b = call.a => call.ret = Zero)

(***************************************************************************)
(* C7, amended: for b <= a integrate returns the negation of what it       *)
(* returns for the bounds exchanged, so a result <= 0 when no coefficient  *)
(* is negative and 0 <= b <= a; for b = a the result is 0.                 *)
(***************************************************************************)
C7_Amended ==
    (call.op = "integrate" /\ Leq(call.b, call.a)) =>
        LET f  == functions[1]
            FF == antiderivative(f)
        IN  /\ call.ret = Neg(fsub(evaluate(FF, call.a), evaluate(FF, call.b)))
            /\ (call.b = call.a => call.ret = Zero)
            /\ ((Leq(Zero, call.b) /\ \A k \in DOMAIN f : Leq(Zero, f[k]))
                    => Leq(call.ret, Zero))

\* integrate([-1], 7, 0) has returned 7.
C7_Witness ==
    /\ call.op = "integrate"
    /\ functions[1] = <<F(-1, 0)>>
    /\ call.a = F(7, 0)
    /\ call.b = Zero
    /\ call.ret = F(7, 0)

(***************************************************************************)
(* C9: print writes c0, then for every index i >= 1 " + ", the             *)
(* coefficient and the power mark with i, every coefficient whatever its   *)
(* sign or value, and a newline at the end.  The expected output is stated *)
(* position by position.                                                   *)
(***************************************************************************)
PrintedText(c, mark) ==
    LET total == IF Len(c) = 0 THEN 1 ELSE 4 * (Len(c) - 1) + 2
    IN  [p \in 1..total |->
            IF p = total THEN Endl
            ELSE IF p = 1 THEN Num(c[1])
            ELSE LET t == (p - 2) \div 4 + 1
                     r == (p - 2) % 4
                 IN  IF r = 0 THEN Txt(" + ")
                     ELSE IF r = 1 THEN Num(c[t + 1])
                     ELSE IF r = 2 THEN Txt(mark)
                     ELSE IntTok(t)]

LastPrinted == SubSeq(out, call.pos + 1, Len(out))

\* C9, as claimed: the term of index i >= 1 is the coefficient followed by
\* *x^i.
C9_Claimed ==
    call.op = "print" => LastPrinted = PrintedText(functions[1], "*x^")

\* C9, amended: the term of index i >= 1 is the coefficient followed by x^i,
\* with no * between them.
C9_Amended ==
    call.op = "print" => LastPrinted = PrintedText(functions[1], "x^")

\* print has returned for 5 + 0x^1 + -1x^2.
C9_Witness ==
    /\ call.op = "print"
    /\ functions[1] = <<F(5, 0), Zero, F(-1, 0)>>
    /\ Len(out) = 10

(***************************************************************************)
(* The calls of RiemannIntegrator::integrate that printTable made.         *)
(***************************************************************************)
ItorOf(k) == itors[calls[k].ij + 1]

FunctionOf(k) == functions[calls[k].fi + 1]

RiemannCalls == {k \in DOMAIN calls : ItorOf(k).kind = "Riemann"}

\* m is q truncated toward zero.
TruncatesTo(q, m) ==
    IF q[1] >= 0
    THEN m >= 0 /\ Leq(IntToFloat(m), q) /\ Lt(q, IntToFloat(m + 1))
    ELSE m <= 0 /\ Leq(q, IntToFloat(m)) /\ Lt(IntToFloat(m - 1), q)

\* The sum of the first k trapezoids of width h from a.
RECURSIVE Trapezoids(_, _, _, _)
Trapezoids(f, a0, h, k) ==
    IF k = 0 THEN Zero
    ELSE LET x1 == fadd(a0, fmul(IntToFloat(k - 1), h))
             x2 == fadd(x1, h)
         IN  fadd(Trapezoids(f, a0, h, k - 1),
                  fdiv(fmul(fsub(x2, x1), fadd(evaluate(f, x1), evaluate(f, x2))),
                       Two))

TrapezoidRule(k) ==
    LET h == ItorOf(k).h
    IN  /\ TruncatesTo(fdiv(fsub(b, a), h), calls[k].iters)
        /\ calls[k].evals = 2 * calls[k].iters
        /\ calls[k].ret = Trapezoids(FunctionOf(k), a, h, calls[k].iters)

(***************************************************************************)
(* C3: for h > 0 and b > a, RiemannIntegrator::integrate runs its loop     *)
(* exactly n times, n being (b - a) / h truncated toward zero, and returns *)
(* the sum of the n trapezoids (x2 - x1) * (f(x1) + f(x2)) / 2 from a, so  *)
(* that what lies beyond a + n*h adds nothing.                             *)
(***************************************************************************)
C3_Claimed ==
    \A k \in RiemannCalls :
        (ItorOf(k).h[1] > 0 /\ Lt(a, b)) => TrapezoidRule(k)

\* What the code does keep of C3: the same, as long as (b - a) / h lies in
\* the range of int.
C3_WithinIntRange ==
    \A k \in RiemannCalls :
        (/\ ItorOf(k).h[1] > 0
         /\ Lt(a, b)
         /\ InIntRange(fdiv(fsub(b, a), ItorOf(k).h))) => TrapezoidRule(k)

\* integrate has returned for 1 + 3x^2 over [3/4, 2] with h = 1: one
\* trapezoid, and [7/4, 2] dropped.
C3_WithinIntRange_Witness ==
    \E k \in RiemannCalls :
        /\ ItorOf(k).h = One
        /\ a = F(3, -2) /\ b = F(2, 0)
        /\ FunctionOf(k) = <<One, Zero, F(3, 0)>>
        /\ calls[k].iters = 1
        /\ calls[k].ret # Zero

C5_WitnessBelowInt ==
    \E k \in RiemannCalls :
        /\ ItorOf(k).h = F(1, -31)
        /\ a = F(2, 0) /\ b = Zero
        /\ calls[k].ret = Zero

(***************************************************************************)
(* C6: a RiemannIntegrator with h <= 0 is rejected at construction, so     *)
(* that none exists and integrate never runs with such a step.             *)
(***************************************************************************)
C6_Claimed ==
    /\ \A k \in DOMAIN itors :
           itors[k].kind = "Riemann" => itors[k].h[1] > 0
    /\ pc = "riemann" => itors[j + 1].h[1] > 0

(***************************************************************************)
(* C8: printTable writes, for each function in order, the function's text, *)
(* then for each integrator in order the value of integrate and ";", then  *)
(* a newline; integrate is called once for every pair of a function and an *)
(* integrator, row by row, and a row is complete before the next begins.   *)
(***************************************************************************)
\* What the first c integrators write in the row of function r.
RECURSIVE ResultsText(_, _)
ResultsText(r, c) ==
    IF c = 0 THEN <<>>
    ELSE ResultsText(r, c - 1)
             \o <<Num(calls[r * Len(itors) + c].ret), Txt(";")>>

\* What the first r rows write.
RECURSIVE RowsText(_)
RowsText(r) ==
    IF r = 0 THEN <<>>
    ELSE RowsText(r - 1) \o print(functions[r])
             \o ResultsText(r - 1, Len(itors)) \o <<Endl>>

\* C8: at every step the output and the returned calls are the rows so far.
C8_TableOrder ==
    /\ pc = "main" => (out = <<>> /\ calls = <<>>)
    /\ pc = "table" =>
           /\ Len(calls) = i * Len(itors)
           /\ out = RowsText(i)
    /\ pc \in {"row", "riemann"} =>
           /\ Len(calls) = i * Len(itors) + j
           /\ out = RowsText(i) \o print(functions[i + 1]) \o ResultsText(i, j)
    /\ pc = "done" =>
           /\ Len(calls) = Len(functions) * Len(itors)
           /\ out = RowsText(Len(functions))
    /\ \A k \in DOMAIN calls :
           /\ calls[k].fi = (k - 1) \div Len(itors)
           /\ calls[k].ij = (k - 1) % Len(itors)
           /\ (ItorOf(k).kind = "Analytical" =>
                   calls[k].ret = AnalyticalIntegrate(FunctionOf(k), a, b))

\* printTable has returned for two different functions and an analytical and
\* a Riemann integrator.
C8_Witness ==
    /\ pc = "done"
    /\ Len(functions) = 2 /\ functions[1] # functions[2]
    /\ Len(itors) = 2
    /\ itors[1].kind = "Analytical" /\ itors[2] = Riemann(One)
    /\ a = Zero /\ b = F(2, 0)
    /\ Len(calls) = 4

====
